---- MODULE Spec2Model ----
(***************************************************************************)
(* Model of multi-node/aws/pkg/cluster/cluster.go: the Cluster handle and  *)
(* its operations ValidateStack, validateExistingVPC, Create, Update and   *)
(* Destroy.  The AWS control plane is the environment: every remote call   *)
(* of an operation draws its response from a small set, and the operation  *)
(* records the call, its request and its response in a log.                *)
(***************************************************************************)
EXTENDS Integers, Sequences, FiniteSets, TLC

\* ------------------------------------------------------------------ bounds
\* Most DescribeStacks calls one Create or Update polling loop is followed for.
MaxPolls == 3
\* Most stacks in one DescribeStacks-by-name response.
MaxStacks == 2
\* Most VPCs in one DescribeVpcs response.
MaxVpcs == 2
\* Most subnets in one DescribeSubnets response.
MaxSubnets == 2
\* Width of an address in bits (32 for IPv4 in the program).
AddrBits == 3
\* Most ListStackResources calls one Info is followed for.
MaxPages == 3

\* time.Sleep(3 * time.Second) in both polling loops.
PollDelaySeconds == 3

\* ------------------------------------------------------------------ errors
\* A Go error value: nil, or a message kept as the sequence of its pieces
\* (the format string's literal parts and its arguments, in order).
NoError == [nil |-> TRUE, msg |-> <<>>]

Errorf(pieces) == [nil |-> FALSE, msg |-> pieces]

\* Errors the AWS SDK returns for any call (transport / service failures).
AwsErrors ==
    { Errorf(<<"RequestError: send request failed">>),
      Errorf(<<"Throttling: Rate exceeded">>) }

\* ------------------------------------------------------------------ strings
\* aws.StringValue of a nil pointer is "": the empty status / reason stands
\* for a field the provider left out.
CreateComplete == "CREATE_COMPLETE"
CreateFailed == "CREATE_FAILED"
CreateInProgress == "CREATE_IN_PROGRESS"
UpdateComplete == "UPDATE_COMPLETE"
UpdateFailed == "UPDATE_FAILED"
UpdateInProgress == "UPDATE_IN_PROGRESS"
UpdateRollbackComplete == "UPDATE_ROLLBACK_COMPLETE"
UpdateRollbackFailed == "UPDATE_ROLLBACK_FAILED"

Statuses ==
    { CreateComplete, CreateFailed, CreateInProgress,
      UpdateComplete, UpdateFailed, UpdateInProgress,
      UpdateRollbackComplete, UpdateRollbackFailed,
      "ROLLBACK_IN_PROGRESS", "DELETE_IN_PROGRESS", "" }

Reasons == { "", "X" }

ClusterNames == { "mycluster", "other" }

Region == "us-west-1"

\* ------------------------------------------------------------------- CIDRs
\* A CIDR string "a.b.c.d/n" is kept as the address and prefix length it
\* spells (host bits included, as written); BadCIDR is a string that
\* net.ParseCIDR rejects.  Two CIDR strings are equal when they spell the same
\* address and length.
CIDR(addr, bits) == [valid |-> TRUE, addr |-> addr, bits |-> bits]

BadCIDR == [valid |-> FALSE, addr |-> 0, bits |-> 0]

RECURSIVE Pow2(_)
Pow2(n) == IF n = 0 THEN 1 ELSE 2 * Pow2(n - 1)

\* ip.Mask(mask): the address with its host bits cleared.
Mask(addr, bits) == (addr \div Pow2(AddrBits - bits)) * Pow2(AddrBits - bits)

\* net.ParseCIDR: the address as written, and the network it lies in.
ParseCIDR(s) ==
    IF s.valid /\ s.bits <= AddrBits /\ s.addr < Pow2(AddrBits)
    THEN [err |-> NoError, ip |-> s.addr,
          net |-> [ip |-> Mask(s.addr, s.bits), bits |-> s.bits]]
    ELSE [err |-> Errorf(<<"invalid CIDR address: ", "bad">>), ip |-> 0,
          net |-> [ip |-> 0, bits |-> 0]]

\* (*IPNet).Contains
Contains(n, ip) == Mask(ip, n.bits) = n.ip

\* %s of a CIDR string and of an *IPNet, as message pieces.
CidrText(s) == IF s.valid THEN <<ToString(s.addr), "/", ToString(s.bits)>> ELSE <<"bad">>

NetText(n) == <<ToString(n.ip), "/", ToString(n.bits)>>

\* The CIDR strings the configuration and the provider's answers are drawn from.
VpcCidrs == { CIDR(0, 1), CIDR(4, 1) }

LiveVpcCidrs == VpcCidrs \cup { CIDR(1, 1) }

InstanceCidrs == { CIDR(0, 2), CIDR(7, 3), BadCIDR }

SubnetCidrs == { CIDR(0, 3), CIDR(2, 2), CIDR(5, 2), BadCIDR }

VpcIds == { "", "vpc-1" }

SubnetIds == { "subnet-a", "subnet-b" }

\* config.Cluster: the fields cluster.go reads.
Configs ==
    [ClusterName : ClusterNames, Region : {Region}, VPCID : VpcIds,
     VPCCIDR : VpcCidrs, InstanceCIDR : InstanceCidrs]

\* All sequences over S of length at most n.
SeqsUpTo(S, n) == UNION { [1..k -> S] : k \in 0..n }

\* ------------------------------------------------------------------- state
VARIABLES
    cfg,               \* config.Cluster embedded in the Cluster handle
    op,                \* the operation being run ("none" before the first)
    pc,                \* where that operation stands
    log,               \* the remote calls and delays of the operation, in order
    result,            \* what the operation returned (when pc = "done")
    stackExists,       \* ValidateStack's local
    validationReport,  \* ValidateStack's local
    resources,         \* Info's local: the resource summaries gathered so far
    prev               \* what a caller kept of an earlier ValidateStack call

vars == <<cfg, op, pc, log, result, stackExists, validationReport, resources, prev>>

Event(call, req, resp) == [call |-> call, req |-> req, resp |-> resp]

SleepEvent == Event("Sleep", [seconds |-> PollDelaySeconds], [err |-> NoError])

Returned(val, err) == [val |-> val, err |-> err]

NoResult == Returned("", NoError)

\* What a caller holds of a finished call: its calls and what it returned.
Kept(l, r) == [called |-> TRUE, log |-> l, result |-> r]

NoCall == [called |-> FALSE, log |-> <<>>, result |-> NoResult]

\* The events of the log that are calls of the given name, in order.
CallsOf(l, call) == SelectSeq(l, LAMBDA e : e.call = call)

\* -------------------------------------------------------------------- New
\* After New(cfg, awsDebug): a handle holding the configuration; no call made.
Init ==
    /\ cfg \in Configs
    /\ op = "none"
    /\ pc = "idle"
    /\ log = <<>>
    /\ result = NoResult
    /\ stackExists = FALSE
    /\ validationReport = ""
    /\ resources = <<>>
    /\ prev = NoCall

\* An operation starts on a handle that is not inside another operation.
CanStart == pc \in {"idle", "done"}

\* ----------------------------------------------------------------- Create
\* The id CreateStack / UpdateStack answer with for this cluster's stack.
StackIdOf(name) == "arn:aws:cloudformation:stack/" \o name

\* What DescribeStacks can answer while an operation polls.
PollResponses ==
    { [err |-> e, Stacks |-> <<>>] : e \in AwsErrors }
    \cup { [err |-> NoError, Stacks |-> <<>>] }
    \cup { [err |-> NoError,
            Stacks |-> << [StackStatus |-> s, StackStatusReason |-> r] >>]
           : s \in Statuses, r \in Reasons }

\* One turn of a polling loop decides: poll again or return, delay or not,
\* and the error returned.
Turn(again, sleep, err) == [again |-> again, sleep |-> sleep, err |-> err]

\* CreateStack answers with an error or with the id of the new stack.
CreateStackResponses ==
    { [err |-> e, StackId |-> ""]
      : e \in AwsErrors \cup { Errorf(<<"AlreadyExistsException: Stack already exists">>) } }
    \cup { [err |-> NoError, StackId |-> StackIdOf(cfg.ClusterName)] }

\* Create: cfSvc.CreateStack(creq); on error return it, else enter the loop.
CreateStack ==
    /\ CanStart
    /\ \E resp \in CreateStackResponses :
          /\ log' = << Event("CreateStack",
                             [StackName |-> cfg.ClusterName, OnFailure |-> "DO_NOTHING",
                              Capabilities |-> <<"CAPABILITY_IAM">>],
                             resp) >>
          /\ pc' = IF resp.err.nil THEN "poll" ELSE "done"
          /\ result' = IF resp.err.nil THEN NoResult ELSE Returned("", resp.err)
    /\ op' = "Create"
    /\ stackExists' = FALSE
    /\ validationReport' = ""
    /\ resources' = <<>>
    /\ UNCHANGED <<cfg, prev>>

\* The switch with the delay of the in-progress case left out.
CreateSwitchNoDelay(stack) ==
    LET statusString == stack.StackStatus IN
    CASE statusString = CreateComplete -> Turn(FALSE, FALSE, NoError)
      [] statusString = CreateFailed ->
            Turn(FALSE, FALSE,
                 Errorf(<<"Stack creation failed: ", statusString, " : ",
                          stack.StackStatusReason>>))
      [] statusString = CreateInProgress -> Turn(TRUE, FALSE, NoError)
      [] OTHER -> Turn(FALSE, FALSE, Errorf(<<"unexpected stack status: ", statusString>>))

\* The switch with CreateFailed falling into the in-progress case.
CreateSwitchFailedPollsOn(stack) ==
    LET statusString == stack.StackStatus IN
    CASE statusString = CreateComplete -> Turn(FALSE, FALSE, NoError)
      [] statusString \in {CreateFailed, CreateInProgress} -> Turn(TRUE, TRUE, NoError)
      [] OTHER -> Turn(FALSE, FALSE, Errorf(<<"unexpected stack status: ", statusString>>))

\* The switch with a default case that waits instead of failing.
CreateSwitchDefaultWaits(stack) ==
    LET statusString == stack.StackStatus IN
    CASE statusString = CreateComplete -> Turn(FALSE, FALSE, NoError)
      [] statusString = CreateFailed ->
            Turn(FALSE, FALSE,
                 Errorf(<<"Stack creation failed: ", statusString, " : ",
                          stack.StackStatusReason>>))
      [] OTHER -> Turn(TRUE, TRUE, NoError)

\* Create's switch on resp.Stacks[0].StackStatus.
CreateStatusSwitch(stack) ==
    LET statusString == stack.StackStatus IN
    CASE statusString = CreateComplete -> Turn(FALSE, FALSE, NoError)
      [] statusString = CreateFailed ->
            Turn(FALSE, FALSE,
                 Errorf(<<"Stack creation failed: ", statusString, " : ",
                          stack.StackStatusReason>>))
      [] statusString = CreateInProgress -> Turn(TRUE, TRUE, NoError)
      [] OTHER -> Turn(FALSE, FALSE, Errorf(<<"unexpected stack status: ", statusString>>))

\* The loop body with a failed describe retried after a delay.
CreateTurnRetriesError(resp) ==
    IF ~resp.err.nil THEN Turn(TRUE, TRUE, NoError)
    ELSE IF Len(resp.Stacks) = 0 THEN Turn(FALSE, FALSE, Errorf(<<"stack not found">>))
    ELSE CreateStatusSwitch(resp.Stacks[1])

\* One pass of Create's loop body over the describe response.
CreateTurn(resp) ==
    IF ~resp.err.nil THEN Turn(FALSE, FALSE, resp.err)
    ELSE IF Len(resp.Stacks) = 0 THEN Turn(FALSE, FALSE, Errorf(<<"stack not found">>))
    ELSE CreateStatusSwitch(resp.Stacks[1])

\* Create: one iteration of the for loop (describe, switch, delay).
CreatePoll ==
    /\ op = "Create"
    /\ pc = "poll"
    /\ Len(CallsOf(log, "DescribeStacks")) < MaxPolls
    /\ \E resp \in PollResponses :
          LET t == CreateTurn(resp) IN
          /\ log' = log \o << Event("DescribeStacks", [StackName |-> log[1].resp.StackId], resp) >>
                        \o (IF t.sleep THEN << SleepEvent >> ELSE << >>)
          /\ pc' = IF t.again THEN "poll" ELSE "done"
          /\ result' = IF t.again THEN result ELSE Returned("", t.err)
    /\ UNCHANGED <<cfg, op, stackExists, validationReport, resources, prev>>

\* ----------------------------------------------------------------- Update
\* UpdateStack answers with an error or with the id of the stack.
UpdateStackResponses ==
    { [err |-> e, StackId |-> ""]
      : e \in AwsErrors \cup { Errorf(<<"ValidationError: No updates are to be performed.">>) } }
    \cup { [err |-> NoError, StackId |-> StackIdOf(cfg.ClusterName)] }

\* updateOutput.String()
UpdateOutputString(out) == "{ StackId: " \o out.StackId \o " }"

\* Update: cfSvc.UpdateStack(input); on error return it wrapped, else loop.
UpdateStack ==
    /\ CanStart
    /\ \E resp \in UpdateStackResponses :
          /\ log' = << Event("UpdateStack",
                             [StackName |-> cfg.ClusterName,
                              Capabilities |-> <<"CAPABILITY_IAM">>],
                             resp) >>
          /\ pc' = IF resp.err.nil THEN "poll" ELSE "done"
          /\ result' = IF resp.err.nil THEN NoResult
                       ELSE Returned("", Errorf(<<"error updating cloudformation stack: ">>
                                                \o resp.err.msg))
    /\ op' = "Update"
    /\ stackExists' = FALSE
    /\ validationReport' = ""
    /\ resources' = <<>>
    /\ UNCHANGED <<cfg, prev>>

\* The switch with a finished rollback taken for a finished update.
UpdateSwitchRollbackSucceeds(stack) ==
    LET statusString == stack.StackStatus IN
    CASE statusString \in {UpdateComplete, UpdateRollbackComplete} ->
            Turn(FALSE, FALSE, NoError)
      [] statusString \in {UpdateFailed, UpdateRollbackFailed} ->
            Turn(FALSE, FALSE,
                 Errorf(<<"Stack status: ", statusString, " : ", stack.StackStatusReason>>))
      [] statusString = UpdateInProgress -> Turn(TRUE, TRUE, NoError)
      [] OTHER -> Turn(FALSE, FALSE, Errorf(<<"unexpected stack status: ", statusString>>))

\* The switch with UpdateFailed falling into the in-progress case.
UpdateSwitchFailedWaits(stack) ==
    LET statusString == stack.StackStatus IN
    CASE statusString = UpdateComplete -> Turn(FALSE, FALSE, NoError)
      [] statusString \in {UpdateRollbackComplete, UpdateRollbackFailed} ->
            Turn(FALSE, FALSE,
                 Errorf(<<"Stack status: ", statusString, " : ", stack.StackStatusReason>>))
      [] statusString \in {UpdateFailed, UpdateInProgress} -> Turn(TRUE, TRUE, NoError)
      [] OTHER -> Turn(FALSE, FALSE, Errorf(<<"unexpected stack status: ", statusString>>))

\* Update's switch on resp.Stacks[0].StackStatus.
UpdateStatusSwitch(stack) ==
    LET statusString == stack.StackStatus IN
    CASE statusString = UpdateComplete -> Turn(FALSE, FALSE, NoError)
      [] statusString \in {UpdateFailed, UpdateRollbackComplete, UpdateRollbackFailed} ->
            Turn(FALSE, FALSE,
                 Errorf(<<"Stack status: ", statusString, " : ", stack.StackStatusReason>>))
      [] statusString = UpdateInProgress -> Turn(TRUE, TRUE, NoError)
      [] OTHER -> Turn(FALSE, FALSE, Errorf(<<"unexpected stack status: ", statusString>>))

\* One pass of Update's loop body over the describe response.
UpdateTurn(resp) ==
    IF ~resp.err.nil THEN Turn(FALSE, FALSE, resp.err)
    ELSE IF Len(resp.Stacks) = 0 THEN Turn(FALSE, FALSE, Errorf(<<"stack not found">>))
    ELSE UpdateStatusSwitch(resp.Stacks[1])

\* Update: one iteration of the for loop (describe, switch, delay).
UpdatePoll ==
    /\ op = "Update"
    /\ pc = "poll"
    /\ Len(CallsOf(log, "DescribeStacks")) < MaxPolls
    /\ \E resp \in PollResponses :
          LET t == UpdateTurn(resp) IN
          /\ log' = log \o << Event("DescribeStacks", [StackName |-> log[1].resp.StackId], resp) >>
                        \o (IF t.sleep THEN << SleepEvent >> ELSE << >>)
          /\ pc' = IF t.again THEN "poll" ELSE "done"
          /\ result' = IF t.again THEN result
                       ELSE Returned(IF t.err.nil THEN UpdateOutputString(log[1].resp) ELSE "",
                                     t.err)
    /\ UNCHANGED <<cfg, op, stackExists, validationReport, resources, prev>>

\* ---------------------------------------------------------------- Destroy
DeleteStackResponses == { [err |-> e] : e \in AwsErrors \cup { NoError } }

\* Destroy with a wait for the deletion added after the request.
DestroyAndDescribe ==
    /\ CanStart
    /\ \E resp \in DeleteStackResponses :
          /\ log' = << Event("DeleteStack", [StackName |-> cfg.ClusterName], resp),
                       Event("DescribeStacks", [StackName |-> cfg.ClusterName],
                             [err |-> NoError, Stacks |-> << >>]) >>
          /\ result' = Returned("", resp.err)
    /\ op' = "Destroy"
    /\ pc' = "done"
    /\ stackExists' = FALSE
    /\ validationReport' = ""
    /\ resources' = <<>>
    /\ UNCHANGED <<cfg, prev>>

\* Destroy: cfSvc.DeleteStack(dreq); return its error.
Destroy ==
    /\ CanStart
    /\ \E resp \in DeleteStackResponses :
          /\ log' = << Event("DeleteStack", [StackName |-> cfg.ClusterName], resp) >>
          /\ result' = Returned("", resp.err)
    /\ op' = "Destroy"
    /\ pc' = "done"
    /\ stackExists' = FALSE
    /\ validationReport' = ""
    /\ resources' = <<>>
    /\ UNCHANGED <<cfg, prev>>

\* ---------------------------------------------------------- ValidateStack
Reports == { "{ Description: kubernetes cluster }", "{ }" }

ValidateTemplateResponses ==
    { [err |-> e, Report |-> ""]
      : e \in AwsErrors \cup { Errorf(<<"ValidationError: Template format error">>) } }
    \cup { [err |-> NoError, Report |-> r] : r \in Reports }

\* ValidateStack going on to the describe call whatever ValidateTemplate said.
ValidateTemplateIgnoresError ==
    /\ CanStart
    /\ \E resp \in ValidateTemplateResponses :
          /\ log' = << Event("ValidateTemplate", [TemplateBody |-> "stackBody"], resp) >>
          /\ validationReport' = resp.Report
    /\ pc' = "describeStacks"
    /\ result' = NoResult
    /\ op' = "Validate"
    /\ stackExists' = FALSE
    /\ resources' = <<>>
    /\ UNCHANGED <<cfg, prev>>

\* ValidateStack writing its report after the report of the call before.
ValidateTemplateAppendsReport ==
    /\ CanStart
    /\ \E resp \in ValidateTemplateResponses :
          /\ log' = << Event("ValidateTemplate", [TemplateBody |-> "stackBody"], resp) >>
          /\ validationReport' = validationReport \o resp.Report
          /\ pc' = IF resp.err.nil THEN "describeStacks" ELSE "done"
          /\ result' = IF resp.err.nil THEN NoResult
                       ELSE Returned("", Errorf(<<"invalid cloudformation stack: ">>
                                                \o resp.err.msg))
    /\ op' = "Validate"
    /\ stackExists' = FALSE
    /\ resources' = <<>>
    /\ UNCHANGED <<cfg, prev>>

\* ValidateStack: cfSvc.ValidateTemplate; on error return it wrapped.
ValidateTemplate ==
    /\ CanStart
    /\ \E resp \in ValidateTemplateResponses :
          /\ log' = << Event("ValidateTemplate", [TemplateBody |-> "stackBody"], resp) >>
          /\ validationReport' = resp.Report
          /\ pc' = IF resp.err.nil THEN "describeStacks" ELSE "done"
          /\ result' = IF resp.err.nil THEN NoResult
                       ELSE Returned("", Errorf(<<"invalid cloudformation stack: ">>
                                                \o resp.err.msg))
    /\ op' = "Validate"
    /\ stackExists' = FALSE
    /\ resources' = <<>>
    /\ UNCHANGED <<cfg, prev>>

\* The provider's error for a describe of a stack name it does not know,
\* followed by whatever the SDK appends (status code, request id).
StackNotExistError(name, tail) ==
    Errorf(<<"ValidationError: Stack with id ", name, " does not exist">> \o tail)

\* What DescribeStacks by name can answer.
DescribeByNameResponses ==
    { [err |-> e, Stacks |-> <<>>] : e \in AwsErrors }
    \cup { [err |-> StackNotExistError(n, t), Stacks |-> <<>>]
           : n \in ClusterNames, t \in { <<>>, <<"\n\tstatus code: 400">> } }
    \cup { [err |-> Errorf(<<"RequestError: ">> \o StackNotExistError(n, <<>>).msg),
            Stacks |-> <<>>] : n \in ClusterNames }
    \cup { [err |-> NoError,
            Stacks |-> [i \in 1..k |-> [StackStatus |-> CreateComplete,
                                        StackStatusReason |-> ""]]]
           : k \in 0..MaxStacks }

\* Whether pieces p begin the message m.
HasPrefix(m, p) == Len(m) >= Len(p) /\ SubSeq(m, 1, Len(p)) = p

\* The match with the cluster name left out of the expression.
StackNotExistMatchAnyName(name, err) ==
    /\ Len(err.msg) >= 3
    /\ err.msg[1] = "ValidationError: Stack with id "
    /\ err.msg[3] = " does not exist"

\* stackNotExistExpr.Match([]byte(err.Error())), the expression being
\* "^ValidationError: Stack with id <name> does not exist".
StackNotExistMatch(name, err) ==
    HasPrefix(err.msg, <<"ValidationError: Stack with id ", name, " does not exist">>)

\* The condition with the stackExists test left out.
NeedsVpcValidationAlways(c, exists) == c.VPCID /= ""

\* c.VPCID != "" && !stackExists
NeedsVpcValidation(c, exists) == c.VPCID /= "" /\ ~exists

\* ValidateStack: describe the stack by name, set stackExists, and either
\* return or go on to validateExistingVPC.
DescribeStackByName ==
    /\ op = "Validate"
    /\ pc = "describeStacks"
    /\ \E resp \in DescribeByNameResponses :
          LET notExist == ~resp.err.nil /\ StackNotExistMatch(cfg.ClusterName, resp.err)
              exists == resp.err.nil
              failure ==
                  IF ~resp.err.nil /\ ~notExist
                  THEN Errorf(<<"error describing stack: ">> \o resp.err.msg)
                  ELSE IF resp.err.nil /\ Len(resp.Stacks) > 1
                  THEN Errorf(<<"expected error: found more the one stack with name ",
                                cfg.ClusterName>>)
                  ELSE NoError
          IN
          /\ log' = log \o << Event("DescribeStacks", [StackName |-> cfg.ClusterName], resp) >>
          /\ stackExists' = exists
          /\ IF ~failure.nil
             THEN pc' = "done" /\ result' = Returned("", failure)
             ELSE IF NeedsVpcValidation(cfg, exists)
             THEN pc' = "describeVpcs" /\ result' = NoResult
             ELSE pc' = "done" /\ result' = Returned(validationReport, NoError)
    /\ UNCHANGED <<cfg, op, validationReport, resources, prev>>

\* ---------------------------------------------------- validateExistingVPC
Vpcs == [VpcId : {"vpc-1"}, CidrBlock : LiveVpcCidrs]

DescribeVpcsResponses ==
    { [err |-> e, Vpcs |-> <<>>] : e \in AwsErrors }
    \cup { [err |-> NoError, Vpcs |-> v] : v \in SeqsUpTo(Vpcs, MaxVpcs) }

\* The checks with the comparison of the two CIDR strings left out.
VpcCheckNoCidrTest(c, resp) ==
    IF ~resp.err.nil
    THEN Errorf(<<"error describing existing vpc: ">> \o resp.err.msg)
    ELSE IF Len(resp.Vpcs) = 0
    THEN Errorf(<<"could not find vpc ", c.VPCID, " in region ", c.Region>>)
    ELSE IF Len(resp.Vpcs) > 1
    THEN Errorf(<<"found more than one vpc with id ", c.VPCID, ". this is NOT NORMAL.">>)
    ELSE NoError

\* validateExistingVPC up to the subnet lookup: the error it returns, or nil.
VpcCheck(c, resp) ==
    IF ~resp.err.nil
    THEN Errorf(<<"error describing existing vpc: ">> \o resp.err.msg)
    ELSE IF Len(resp.Vpcs) = 0
    THEN Errorf(<<"could not find vpc ", c.VPCID, " in region ", c.Region>>)
    ELSE IF Len(resp.Vpcs) > 1
    THEN Errorf(<<"found more than one vpc with id ", c.VPCID, ". this is NOT NORMAL.">>)
    ELSE IF resp.Vpcs[1].CidrBlock /= c.VPCCIDR
    THEN Errorf(<<"configured vpcCidr (">> \o CidrText(c.VPCCIDR)
                \o <<") does not match actual existing vpc cidr (">>
                \o CidrText(resp.Vpcs[1].CidrBlock) \o <<")">>)
    ELSE NoError

\* validateExistingVPC: ec2Svc.DescribeVpcs and the checks on its answer.
DescribeVpcs ==
    /\ op = "Validate"
    /\ pc = "describeVpcs"
    /\ \E resp \in DescribeVpcsResponses :
          LET err == VpcCheck(cfg, resp) IN
          /\ log' = log \o << Event("DescribeVpcs", [VpcIds |-> <<cfg.VPCID>>], resp) >>
          /\ pc' = IF err.nil THEN "describeSubnets" ELSE "done"
          /\ result' = IF err.nil THEN NoResult ELSE Returned("", err)
    /\ UNCHANGED <<cfg, op, stackExists, validationReport, resources, prev>>

Subnets == [SubnetId : SubnetIds, CidrBlock : SubnetCidrs]

DescribeSubnetsResponses ==
    { [err |-> e, Subnets |-> <<>>] : e \in AwsErrors }
    \cup { [err |-> NoError, Subnets |-> v] : v \in SeqsUpTo(Subnets, MaxSubnets) }

\* The test with only its first operand.
ConflictsExistingSideOnly(existing, candidate) == Contains(existing.net, candidate.ip)

\* The test with only its second operand.
ConflictsCandidateSideOnly(existing, candidate) == Contains(candidate.net, existing.ip)

\* existingSubnetNet.Contains(subnetIP) || subnetNet.Contains(existingSubnetIP)
Conflicts(existing, candidate) ==
    Contains(existing.net, candidate.ip) \/ Contains(candidate.net, existing.ip)

\* The loop stopping after the first subnet of the list.
ScanSubnetsFirstOnly(subnets, candidate, i) ==
    IF i > Len(subnets) \/ i > 1 THEN NoError
    ELSE LET existing == ParseCIDR(subnets[i].CidrBlock) IN
         IF ~existing.err.nil
         THEN Errorf(<<"error parsing existing subnet cidr ">>
                     \o CidrText(subnets[i].CidrBlock) \o <<" : ">> \o existing.err.msg)
         ELSE IF Contains(existing.net, candidate.ip) \/ Contains(candidate.net, existing.ip)
         THEN Errorf(<<"instance cidr (">> \o NetText(candidate.net)
                     \o <<") conflicts with existing subnet ", subnets[i].SubnetId,
                          ", cidr=">> \o NetText(existing.net))
         ELSE NoError

\* The loop over subnetOutput.Subnets from index i on: the error of the first
\* subnet that does not parse or that conflicts, else nil.
RECURSIVE ScanSubnets(_, _, _)
ScanSubnets(subnets, candidate, i) ==
    IF i > Len(subnets) THEN NoError
    ELSE LET existing == ParseCIDR(subnets[i].CidrBlock) IN
         IF ~existing.err.nil
         THEN Errorf(<<"error parsing existing subnet cidr ">>
                     \o CidrText(subnets[i].CidrBlock) \o <<" : ">> \o existing.err.msg)
         ELSE IF Conflicts(existing, candidate)
         THEN Errorf(<<"instance cidr (">> \o NetText(candidate.net)
                     \o <<") conflicts with existing subnet ", subnets[i].SubnetId,
                          ", cidr=">> \o NetText(existing.net))
         ELSE ScanSubnets(subnets, candidate, i + 1)

\* validateExistingVPC from the subnet lookup on: the error it returns, or nil.
SubnetCheck(c, resp) ==
    IF ~resp.err.nil
    THEN Errorf(<<"error describing subnets for vpc: ">> \o resp.err.msg)
    ELSE LET candidate == ParseCIDR(c.InstanceCIDR) IN
         IF ~candidate.err.nil
         THEN Errorf(<<"error parsing instances cidr ">> \o CidrText(c.InstanceCIDR)
                     \o <<" : ">> \o candidate.err.msg)
         ELSE ScanSubnets(resp.Subnets, candidate, 1)

\* validateExistingVPC: ec2Svc.DescribeSubnets, the scan, and ValidateStack's
\* return after it.
DescribeSubnetsFrom(responses) ==
    /\ op = "Validate"
    /\ pc = "describeSubnets"
    /\ \E resp \in responses :
          LET err == SubnetCheck(cfg, resp) IN
          /\ log' = log \o << Event("DescribeSubnets",
                                    [vpcId |-> log[Len(log)].resp.Vpcs[1].VpcId], resp) >>
          /\ result' = IF err.nil THEN Returned(validationReport, NoError)
                       ELSE Returned("", err)
    /\ pc' = "done"
    /\ UNCHANGED <<cfg, op, stackExists, validationReport, resources, prev>>

DescribeSubnets == DescribeSubnetsFrom(DescribeSubnetsResponses)

\* ------------------------------------------------------------------- Info
\* A *string field of a summary: nil, or a value.
NilString == [set |-> FALSE, val |-> ""]

StringPtr(v) == [set |-> TRUE, val |-> v]

\* cloudformation.StackResourceSummary: the two fields Info reads.
ResourceSummaries ==
    { [LogicalResourceId |-> "EIPController", PhysicalResourceId |-> NilString],
      [LogicalResourceId |-> "EIPController", PhysicalResourceId |-> StringPtr("52.0.0.1")],
      [LogicalResourceId |-> "EIPController", PhysicalResourceId |-> StringPtr("52.0.0.2")],
      [LogicalResourceId |-> "AutoScaleWorker", PhysicalResourceId |-> StringPtr("asg-1")] }

\* One page of ListStackResources: no summary or one.
PageContents == { <<>> } \cup { <<r>> : r \in ResourceSummaries }

\* NextToken of a response; "" is aws.StringValue of no token.
Tokens == { "", "token-1", "token-2" }

ListStackResourcesResponses ==
    { [err |-> e, StackResourceSummaries |-> <<>>, NextToken |-> ""] : e \in AwsErrors }
    \cup { [err |-> NoError, StackResourceSummaries |-> c, NextToken |-> t]
           : c \in PageContents, t \in Tokens }

\* *ClusterInfo: nil, or the struct.
NilInfo == [isNil |-> TRUE, Name |-> "", ControllerIP |-> ""]

\* var info ClusterInfo
ZeroInfo == [isNil |-> FALSE, Name |-> "", ControllerIP |-> ""]

\* The scan with a controller resource that has no physical id passed over.
RECURSIVE ScanResourcesSkipsMissing(_, _, _)
ScanResourcesSkipsMissing(rs, i, info) ==
    IF i > Len(rs) THEN Returned(info, NoError)
    ELSE IF rs[i].LogicalResourceId = "EIPController"
    THEN IF rs[i].PhysicalResourceId.set
         THEN ScanResourcesSkipsMissing(rs, i + 1,
                  [info EXCEPT !.ControllerIP = rs[i].PhysicalResourceId.val])
         ELSE ScanResourcesSkipsMissing(rs, i + 1, info)
    ELSE ScanResourcesSkipsMissing(rs, i + 1, info)

\* The scan leaving the loop at the first controller resource.
ScanResourcesFirstWins(rs, i, info) ==
    LET at == { k \in i..Len(rs) : rs[k].LogicalResourceId = "EIPController" } IN
    IF at = {} THEN Returned(info, NoError)
    ELSE LET k == CHOOSE k \in at : \A j \in at : k <= j IN
         IF rs[k].PhysicalResourceId.set
         THEN Returned([info EXCEPT !.ControllerIP = rs[k].PhysicalResourceId.val], NoError)
         ELSE Returned(NilInfo,
                       Errorf(<<"unable to get public IP of controller instance">>))

\* Info's loop over resources from index i on, and its return.
RECURSIVE ScanResources(_, _, _)
ScanResources(rs, i, info) ==
    IF i > Len(rs) THEN Returned(info, NoError)
    ELSE IF rs[i].LogicalResourceId = "EIPController"
    THEN IF rs[i].PhysicalResourceId.set
         THEN ScanResources(rs, i + 1,
                  [info EXCEPT !.ControllerIP = rs[i].PhysicalResourceId.val])
         ELSE Returned(NilInfo,
                       Errorf(<<"unable to get public IP of controller instance">>))
    ELSE ScanResources(rs, i + 1, info)

\* The loop left after the first page whatever its token.
MorePagesNever(resp) == FALSE

\* aws.StringValue(req.NextToken) == "" breaks the loop.
MorePages(resp) == resp.NextToken /= ""

\* One iteration of Info's listing loop, and the scan after its last one:
\* the call carries `token`, `sofar` are the summaries gathered before it.
ListPage(before, sofar, token) ==
    \E resp \in ListStackResourcesResponses :
        /\ log' = before \o << Event("ListStackResources",
                                     [StackName |-> cfg.ClusterName, NextToken |-> token],
                                     resp) >>
        /\ IF ~resp.err.nil
           THEN /\ resources' = sofar
                /\ pc' = "done"
                /\ result' = Returned(NilInfo, resp.err)
           ELSE /\ resources' = sofar \o resp.StackResourceSummaries
                /\ IF MorePages(resp)
                   THEN pc' = "list" /\ result' = NoResult
                   ELSE pc' = "done" /\ result' = ScanResources(resources', 1, ZeroInfo)

\* Info: the first ListStackResources call.
Info ==
    /\ CanStart
    /\ ListPage(<<>>, <<>>, "")
    /\ op' = "Info"
    /\ stackExists' = FALSE
    /\ validationReport' = ""
    /\ UNCHANGED <<cfg, prev>>

\* Info: a further ListStackResources call, with the token of the last answer.
InfoNextPage ==
    /\ op = "Info"
    /\ pc = "list"
    /\ Len(log) < MaxPages
    /\ ListPage(log, resources, log[Len(log)].resp.NextToken)
    /\ UNCHANGED <<cfg, op, stackExists, validationReport, prev>>

\* ------------------------------------------------------------------- Spec
Next ==
    \/ Info
    \/ InfoNextPage
    \/ ValidateTemplate
    \/ DescribeStackByName
    \/ DescribeVpcs
    \/ DescribeSubnets
    \/ CreateStack
    \/ CreatePoll
    \/ UpdateStack
    \/ UpdatePoll
    \/ Destroy

Spec == Init /\ [][Next]_vars

\* ---------------------------------------------- polling that is answered
\* The control plane leaves the in-progress status, or fails the call, by
\* its MaxPolls-th answer at the latest.
AnsweredInTime == Len(CallsOf(log, "DescribeStacks")) = MaxPolls - 1 => pc' = "done"

CreatePollAnswered == CreatePoll /\ AnsweredInTime

UpdatePollAnswered == UpdatePoll /\ AnsweredInTime

NextPolling ==
    \/ CreateStack
    \/ CreatePollAnswered
    \/ UpdateStack
    \/ UpdatePollAnswered

\* Create and Update with a control plane that answers in time; the loops
\* run on their caller's thread, so an iteration that can run does run.
SpecPolling ==
    /\ Init
    /\ [][NextPolling]_vars
    /\ WF_vars(CreatePollAnswered)
    /\ WF_vars(UpdatePollAnswered)

\* ------------------------------------------------- ValidateStack called twice
\* The caller keeps what a finished ValidateStack call returned (and the
\* calls it made), before calling it again.
KeepValidateResult ==
    /\ op = "Validate"
    /\ pc = "done"
    /\ ~prev.called
    /\ prev' = Kept(log, result)
    /\ UNCHANGED <<cfg, op, pc, log, result, stackExists, validationReport, resources>>

\* The remote state is what it was during the kept call: a request made
\* again gets the answer it got then.
AnswersAsBefore ==
    prev.called =>
        \A i \in 1..Len(log) :
            ( /\ i <= Len(prev.log)
              /\ log[i].call = prev.log[i].call
              /\ log[i].req = prev.log[i].req )
            => log[i].resp = prev.log[i].resp

ValidateTemplateAgain == ValidateTemplate /\ AnswersAsBefore'

DescribeStackByNameAgain == DescribeStackByName /\ AnswersAsBefore'

DescribeVpcsAgain == DescribeVpcs /\ AnswersAsBefore'

\* The answers DescribeSubnets can get: the kept one when the kept call made
\* the same request at this point, any answer otherwise.
DescribeSubnetsAnswers ==
    LET i == Len(log) + 1 IN
    IF /\ prev.called
       /\ i <= Len(prev.log)
       /\ prev.log[i].call = "DescribeSubnets"
       /\ prev.log[i].req = [vpcId |-> log[Len(log)].resp.Vpcs[1].VpcId]
    THEN {prev.log[i].resp}
    ELSE DescribeSubnetsResponses

DescribeSubnetsAgain == DescribeSubnetsFrom(DescribeSubnetsAnswers) /\ AnswersAsBefore'

NextValidateTwice ==
    \/ ValidateTemplateAgain
    \/ DescribeStackByNameAgain
    \/ DescribeVpcsAgain
    \/ DescribeSubnetsAgain
    \/ KeepValidateResult

\* ValidateStack called, and called again against unchanged remote state.
SpecValidateTwice == Init /\ [][NextValidateTwice]_vars

\* ------------------------------------------- the conflict test on all CIDRs
\* Every CIDR string over the address width, host bits set or not.
AllCidrs == { CIDR(a, b) : a \in 0..(Pow2(AddrBits) - 1), b \in 0..AddrBits }

\* A handle whose instance CIDR is any CIDR string, in an existing VPC.
InitAnyCidr ==
    /\ cfg \in [ClusterName : {"mycluster"}, Region : {Region}, VPCID : {"vpc-1"},
                VPCCIDR : {CIDR(0, 1)}, InstanceCIDR : AllCidrs]
    /\ op = "none"
    /\ pc = "idle"
    /\ log = <<>>
    /\ result = NoResult
    /\ stackExists = FALSE
    /\ validationReport = ""
    /\ resources = <<>>
    /\ prev = NoCall

\* The answers listing one subnet, of any CIDR string.
OneSubnetResponses ==
    { [err |-> NoError, Subnets |-> << [SubnetId |-> "subnet-a", CidrBlock |-> c] >>]
      : c \in AllCidrs }

\* DescribeSubnets answering with one subnet of any CIDR string.
DescribeOneSubnetOfAnyCidr == DescribeSubnetsFrom(OneSubnetResponses)

NextAnyCidr ==
    \/ ValidateTemplate
    \/ DescribeStackByName
    \/ DescribeVpcs
    \/ DescribeOneSubnetOfAnyCidr

\* ValidateStack run on every pair of candidate and existing CIDR string.
SpecAnyCidr == InitAnyCidr /\ [][NextAnyCidr]_vars

\* ------------------------------------------------------------- properties
\* The status a describe event carries, when it carries a stack.
HasStatus(e) == e.call = "DescribeStacks" /\ e.resp.err.nil /\ Len(e.resp.Stacks) > 0

StatusOf(e) == e.resp.Stacks[1].StackStatus

ReasonOf(e) == e.resp.Stacks[1].StackStatusReason

IsLast(i) == i = Len(log)

\* C1: in Create, when the describe responses so far are n times
\* CreateInProgress followed by CreateComplete, Create has returned success
\* and its log is CreateStack, then n times (describe, 3 s delay), then one
\* describe: n+1 describe calls, n delays, none after the terminal response.
C1_CreateCompletesAfterNDelays ==
    LET d == CallsOf(log, "DescribeStacks")
        n == Len(d) - 1
    IN  ( /\ op = "Create"
          /\ Len(d) > 0
          /\ \A i \in 1..Len(d) : HasStatus(d[i])
          /\ \A i \in 1..n : StatusOf(d[i]) = CreateInProgress
          /\ StatusOf(d[Len(d)]) = CreateComplete )
        => /\ pc = "done"
           /\ result = Returned("", NoError)
           /\ Len(log) = 2 * n + 2
           /\ log[1].call = "CreateStack"
           /\ \A i \in 1..n : /\ log[2 * i].call = "DescribeStacks"
                              /\ log[2 * i + 1].call = "Sleep"
                              /\ log[2 * i + 1].req.seconds = 3
           /\ log[2 * n + 2].call = "DescribeStacks"
           /\ Len(CallsOf(log, "Sleep")) = n

\* The spec's case: [CreateInProgress, CreateInProgress, CreateComplete].
C1_Witness ==
    /\ op = "Create"
    /\ pc = "done"
    /\ result.err.nil
    /\ Len(CallsOf(log, "DescribeStacks")) = 3
    /\ Len(CallsOf(log, "Sleep")) = 2

\* C2: in Create, a describe response with status CreateFailed and reason X
\* is the last event of the operation (no describe and no delay follows),
\* and Create has returned the error "Stack creation failed" carrying X.
C2_CreateFailedIsTerminal ==
    \A i \in 1..Len(log) :
        (op = "Create" /\ HasStatus(log[i]) /\ StatusOf(log[i]) = CreateFailed)
        => /\ IsLast(i)
           /\ pc = "done"
           /\ result = Returned("", Errorf(<<"Stack creation failed: ", CreateFailed,
                                            " : ", ReasonOf(log[i])>>))

C2_Witness ==
    /\ op = "Create"
    /\ pc = "done"
    /\ Len(CallsOf(log, "Sleep")) >= 1
    /\ HasStatus(log[Len(log)])
    /\ StatusOf(log[Len(log)]) = CreateFailed
    /\ ReasonOf(log[Len(log)]) = "X"
    /\ result.err.msg[4] = "X"

\* C3: in Update, every describe response that carries a status is
\* classified: UpdateInProgress is followed by a delay and the loop goes on;
\* UpdateComplete returns success with the update description; UpdateFailed,
\* UpdateRollbackComplete and UpdateRollbackFailed return the "Stack status"
\* error; any other status returns "unexpected stack status".  Update returns
\* success only if the last response it saw was UpdateComplete.
C3_UpdateClassifiesStatus ==
    /\ \A i \in 1..Len(log) :
         (op = "Update" /\ HasStatus(log[i])) =>
            LET s == StatusOf(log[i]) IN
            CASE s = UpdateInProgress ->
                    /\ i < Len(log)
                    /\ log[i + 1].call = "Sleep"
                    /\ IF i + 1 = Len(log) THEN pc = "poll"
                       ELSE log[i + 2].call = "DescribeStacks"
              [] s = UpdateComplete ->
                    /\ IsLast(i)
                    /\ pc = "done"
                    /\ result = Returned(UpdateOutputString(log[1].resp), NoError)
              [] s \in {UpdateFailed, UpdateRollbackComplete, UpdateRollbackFailed} ->
                    /\ IsLast(i)
                    /\ pc = "done"
                    /\ result = Returned("", Errorf(<<"Stack status: ", s, " : ",
                                                     ReasonOf(log[i])>>))
              [] OTHER ->
                    /\ IsLast(i)
                    /\ pc = "done"
                    /\ result = Returned("", Errorf(<<"unexpected stack status: ", s>>))
    /\ (op = "Update" /\ pc = "done" /\ result.err.nil)
         => /\ HasStatus(log[Len(log)])
            /\ StatusOf(log[Len(log)]) = UpdateComplete

C3_Witness ==
    /\ op = "Update"
    /\ pc = "done"
    /\ Len(CallsOf(log, "Sleep")) >= 1
    /\ HasStatus(log[Len(log)])
    /\ StatusOf(log[Len(log)]) = UpdateRollbackComplete
    /\ ~result.err.nil

\* C4: in Create, a describe response whose status is none of
\* CreateInProgress, CreateComplete, CreateFailed is the last event of the
\* operation and Create has returned "unexpected stack status"; Create
\* returns success only if the last response it saw was CreateComplete.
C4_CreateUnknownStatusIsFatal ==
    /\ \A i \in 1..Len(log) :
         ( /\ op = "Create"
           /\ HasStatus(log[i])
           /\ StatusOf(log[i]) \notin {CreateInProgress, CreateComplete, CreateFailed} )
         => /\ IsLast(i)
            /\ pc = "done"
            /\ result = Returned("", Errorf(<<"unexpected stack status: ",
                                             StatusOf(log[i])>>))
    /\ (op = "Create" /\ pc = "done" /\ result.err.nil)
         => /\ HasStatus(log[Len(log)])
            /\ StatusOf(log[Len(log)]) = CreateComplete

C4_Witness ==
    /\ op = "Create"
    /\ pc = "done"
    /\ Len(CallsOf(log, "Sleep")) >= 1
    /\ HasStatus(log[Len(log)])
    /\ StatusOf(log[Len(log)]) = "ROLLBACK_IN_PROGRESS"
    /\ result.err.msg[1] = "unexpected stack status: "

\* C5: in Create and in Update, a describe call that fails is the last event
\* of the operation (not retried, no delay after it) and the operation has
\* returned that very error.
C5_DescribeErrorReturnedAtOnce ==
    \A i \in 1..Len(log) :
        ( /\ op \in {"Create", "Update"}
          /\ log[i].call = "DescribeStacks"
          /\ ~log[i].resp.err.nil )
        => /\ IsLast(i)
           /\ pc = "done"
           /\ result = Returned("", log[i].resp.err)

C5_Witness ==
    /\ op = "Create"
    /\ pc = "done"
    /\ Len(CallsOf(log, "Sleep")) = 2
    /\ log[Len(log)].call = "DescribeStacks"
    /\ ~log[Len(log)].resp.err.nil
    /\ result.err = log[Len(log)].resp.err

\* C6: Destroy makes exactly one remote call, the delete request, with no
\* describe and no delay, and returns that call's error (nil when accepted).
C6_DestroyIsOneRequest ==
    op = "Destroy"
    => /\ pc = "done"
       /\ Len(log) = 1
       /\ log[1].call = "DeleteStack"
       /\ result = Returned("", log[1].resp.err)

C6_Witness ==
    /\ op = "Destroy"
    /\ pc = "done"
    /\ log[1].call = "DeleteStack"
    /\ result.err.nil

\* ValidateTemplate succeeded (the first call of a Validate).
TemplateOk ==
    Len(log) >= 1 /\ log[1].call = "ValidateTemplate" /\ log[1].resp.err.nil

\* The describe-by-name call of a Validate has been made.
DescribedByName == Len(log) >= 2 /\ log[2].call = "DescribeStacks"

\* Its answer was the provider's "does not exist" error for this cluster name.
ReportedAbsent ==
    /\ DescribedByName
    /\ ~log[2].resp.err.nil
    /\ HasPrefix(log[2].resp.err.msg,
                 <<"ValidationError: Stack with id ", cfg.ClusterName, " does not exist">>)

\* validateExistingVPC has been entered.
VpcValidationInvoked ==
    \/ pc \in {"describeVpcs", "describeSubnets"}
    \/ Len(CallsOf(log, "DescribeVpcs")) > 0

\* C7: in Validate, validateExistingVPC is entered if and only if the
\* template validated, a VPC id is configured and the describe-by-name call
\* reported that the stack does not exist; when it fails Validate returns
\* its error unchanged; when no VPC id is configured or the stack exists (and
\* neither earlier step failed) there is no VPC or subnet call and the
\* provider's validation report is returned.
C7_VpcValidationIffNewStackInVpc ==
    op = "Validate" =>
      /\ VpcValidationInvoked <=> (TemplateOk /\ cfg.VPCID /= "" /\ ReportedAbsent)
      /\ (pc = "done" /\ VpcValidationInvoked /\ ~result.err.nil)
           => LET last == log[Len(log)] IN
              result = Returned("", IF last.call = "DescribeVpcs"
                                    THEN VpcCheck(cfg, last.resp)
                                    ELSE SubnetCheck(cfg, last.resp))
      /\ ( /\ TemplateOk
           /\ DescribedByName
           /\ \/ ReportedAbsent /\ cfg.VPCID = ""
              \/ log[2].resp.err.nil /\ Len(log[2].resp.Stacks) <= 1 )
           => /\ pc = "done"
              /\ Len(log) = 2
              /\ result = Returned(log[1].resp.Report, NoError)

C7_Witness ==
    /\ op = "Validate"
    /\ pc = "done"
    /\ cfg.VPCID /= ""
    /\ ReportedAbsent
    /\ Len(log) = 4
    /\ log[4].call = "DescribeSubnets"
    /\ ~result.err.nil
    /\ result.err.msg[1] = "instance cidr ("

\* C8: in Validate, a failed template validation is the only remote call:
\* Validate has returned "invalid cloudformation stack" wrapping the error,
\* and no describe-stack, describe-VPC or describe-subnets call follows.
C8_InvalidTemplateReturnsAtOnce ==
    ( /\ op = "Validate"
      /\ Len(log) >= 1
      /\ ~log[1].resp.err.nil )
    => /\ Len(log) = 1
       /\ pc = "done"
       /\ result = Returned("", Errorf(<<"invalid cloudformation stack: ">>
                                       \o log[1].resp.err.msg))

C8_Witness ==
    /\ op = "Validate"
    /\ pc = "done"
    /\ log[1].call = "ValidateTemplate"
    /\ log[1].resp.err = Errorf(<<"ValidationError: Template format error">>)
    /\ result.err.msg[1] = "invalid cloudformation stack: "

\* C9: in Validate, a describe-by-name error matching the not-found pattern
\* for this cluster name sets stackExists to false and validation goes on
\* (to the VPC checks when a VPC id is configured, else to returning the
\* report); any other describe error makes Validate return "error describing
\* stack" wrapping it, with no further call; an answer with more than one
\* stack makes Validate return the "found more the one stack" error.
C9_DescribeByNameOutcomes ==
    (op = "Validate" /\ DescribedByName) =>
      LET resp == log[2].resp IN
      /\ ReportedAbsent
           => /\ stackExists = FALSE
              /\ IF cfg.VPCID = ""
                 THEN /\ pc = "done"
                      /\ Len(log) = 2
                      /\ result = Returned(log[1].resp.Report, NoError)
                 ELSE \/ pc = "describeVpcs" /\ Len(log) = 2
                      \/ Len(log) >= 3 /\ log[3].call = "DescribeVpcs"
      /\ (~resp.err.nil /\ ~ReportedAbsent)
           => /\ pc = "done"
              /\ Len(log) = 2
              /\ result = Returned("", Errorf(<<"error describing stack: ">>
                                              \o resp.err.msg))
      /\ (resp.err.nil /\ Len(resp.Stacks) > 1)
           => /\ pc = "done"
              /\ Len(log) = 2
              /\ result = Returned("", Errorf(<<"expected error: found more the one stack with name ",
                                               cfg.ClusterName>>))

C9_Witness ==
    /\ op = "Validate"
    /\ pc = "done"
    /\ ReportedAbsent
    /\ Len(log[2].resp.err.msg) = 4
    /\ stackExists = FALSE
    /\ result.err.nil
    /\ result.val = log[1].resp.Report

\* C10: in validateExistingVPC, a describe-subnets call is always directly
\* preceded by a VPC lookup that returned exactly one VPC whose CIDR string
\* equals the configured one; a lookup returning one VPC with a different
\* CIDR string is the last call, and the mismatch error has been returned.
C10_SubnetsOnlyAfterCidrMatch ==
    \A i \in 1..Len(log) :
      /\ log[i].call = "DescribeSubnets"
           => /\ i > 1
              /\ log[i - 1].call = "DescribeVpcs"
              /\ log[i - 1].resp.err.nil
              /\ Len(log[i - 1].resp.Vpcs) = 1
              /\ log[i - 1].resp.Vpcs[1].CidrBlock = cfg.VPCCIDR
      /\ ( /\ log[i].call = "DescribeVpcs"
           /\ log[i].resp.err.nil
           /\ Len(log[i].resp.Vpcs) = 1
           /\ log[i].resp.Vpcs[1].CidrBlock /= cfg.VPCCIDR )
           => /\ IsLast(i)
              /\ pc = "done"
              /\ result.val = ""
              /\ result.err.msg = <<"configured vpcCidr (">> \o CidrText(cfg.VPCCIDR)
                      \o <<") does not match actual existing vpc cidr (">>
                      \o CidrText(log[i].resp.Vpcs[1].CidrBlock) \o <<")">>

\* The live VPC's CIDR string differs from the configured one although both
\* name the same network.
C10_Witness ==
    /\ op = "Validate"
    /\ pc = "done"
    /\ Len(log) = 3
    /\ log[3].call = "DescribeVpcs"
    /\ Len(log[3].resp.Vpcs) = 1
    /\ log[3].resp.Vpcs[1].CidrBlock = CIDR(1, 1)
    /\ cfg.VPCCIDR = CIDR(0, 1)
    /\ result.err.msg[1] = "configured vpcCidr ("

\* --------------------------------------------- properties of the subnet scan
\* The addresses a CIDR string covers, by the definition of a prefix: those
\* that agree with its address on the first `bits` bits.
RangeOf(s) ==
    { x \in 0..(Pow2(AddrBits) - 1) :
        x \div Pow2(AddrBits - s.bits) = s.addr \div Pow2(AddrBits - s.bits) }

\* Two CIDR strings that parse overlap when they share an address.
Overlap(a, b) == a.valid /\ b.valid /\ RangeOf(a) \cap RangeOf(b) /= {}

\* Rank of a subnet id in sorted order.
IdRank(id) == IF id = "subnet-a" THEN 1 ELSE 2

\* ValidateStack has returned from validateExistingVPC's scan of a subnet list.
ScanReturned ==
    /\ op = "Validate"
    /\ pc = "done"
    /\ Len(log) = 4
    /\ log[4].call = "DescribeSubnets"
    /\ log[4].resp.err.nil
    /\ cfg.InstanceCIDR.valid

\* The scan returned the conflict error.
ConflictReturned ==
    /\ ScanReturned
    /\ ~result.err.nil
    /\ result.err.msg[1] = "instance cidr ("

\* The subnet id the conflict error names.
NamedSubnet == result.err.msg[6]

\* C11 as stated: the conflict error names the overlapping subnet with the
\* smallest subnet id, whatever the order of the provider's list.
C11_NamesSmallestId ==
    ConflictReturned =>
        LET subnets == log[4].resp.Subnets
            over == { k \in 1..Len(subnets) : Overlap(subnets[k].CidrBlock, cfg.InstanceCIDR) }
        IN  \A k \in over : IdRank(NamedSubnet) <= IdRank(subnets[k].SubnetId)

\* What the code does where C11 asks for the smallest id: the conflict error
\* names the first subnet, in the order of
\* the provider's list, that overlaps the candidate; every subnet before it
\* parses and does not overlap.
C11_NamesFirstInListOrder ==
    ConflictReturned =>
        LET subnets == log[4].resp.Subnets IN
        \E k \in 1..Len(subnets) :
            /\ Overlap(subnets[k].CidrBlock, cfg.InstanceCIDR)
            /\ NamedSubnet = subnets[k].SubnetId
            /\ result.err.msg[8] = ToString(Mask(subnets[k].CidrBlock.addr,
                                                 subnets[k].CidrBlock.bits))
            /\ \A j \in 1..(k - 1) :
                 /\ subnets[j].CidrBlock.valid
                 /\ ~Overlap(subnets[j].CidrBlock, cfg.InstanceCIDR)

\* Two overlapping subnets listed with the larger id first: the larger id is named.
C11_Witness ==
    /\ ConflictReturned
    /\ Len(log[4].resp.Subnets) = 2
    /\ log[4].resp.Subnets[1].SubnetId = "subnet-b"
    /\ log[4].resp.Subnets[2].SubnetId = "subnet-a"
    /\ Overlap(log[4].resp.Subnets[1].CidrBlock, cfg.InstanceCIDR)
    /\ Overlap(log[4].resp.Subnets[2].CidrBlock, cfg.InstanceCIDR)
    /\ NamedSubnet = "subnet-b"

\* C12: when the VPC lookup passed, the candidate CIDR parses and the subnet
\* list was fetched, validateExistingVPC succeeds only if no listed subnet
\* overlaps the candidate, and (every listed CIDR parsing) it succeeds if none
\* does; with no subnets it succeeds; with an overlapping subnet it fails,
\* and (every listed CIDR parsing) the conflict error names an overlapping
\* subnet's id.
C12_SuccessIffNoOverlap ==
    ScanReturned =>
        LET subnets == log[4].resp.Subnets
            over == { k \in 1..Len(subnets) : Overlap(subnets[k].CidrBlock, cfg.InstanceCIDR) }
            allParse == \A k \in 1..Len(subnets) : subnets[k].CidrBlock.valid
        IN  /\ result.err.nil => over = {}
            /\ over /= {} => ~result.err.nil
            /\ (over = {} /\ allParse) => result = Returned(log[1].resp.Report, NoError)
            /\ Len(subnets) = 0 => result.err.nil
            /\ (over /= {} /\ allParse)
                 => /\ ConflictReturned
                    /\ \E k \in over : NamedSubnet = subnets[k].SubnetId

\* Two subnets listed, neither overlapping the candidate: success.
C12_Witness ==
    /\ ScanReturned
    /\ Len(log[4].resp.Subnets) = 2
    /\ \A k \in 1..2 : /\ log[4].resp.Subnets[k].CidrBlock.valid
                       /\ ~Overlap(log[4].resp.Subnets[k].CidrBlock, cfg.InstanceCIDR)
    /\ result.err.nil
    /\ result.val = log[1].resp.Report

\* C13: the conflict test is symmetric and reflexive: the verdict of the scan
\* on (existing B, candidate A) is the verdict of the test with the two CIDRs
\* in each other's place, and a CIDR conflicts with itself.
C13_ConflictTestSymmetricReflexive ==
    (ScanReturned /\ Len(log[4].resp.Subnets) = 1) =>
        LET a == cfg.InstanceCIDR
            b == log[4].resp.Subnets[1].CidrBlock
        IN  /\ ConflictReturned <=> Conflicts(ParseCIDR(a), ParseCIDR(b))
            /\ a = b => ConflictReturned

\* A conflict between two different CIDRs, one nested in the other, the
\* candidate's address lying outside the existing subnet.
C13_Witness ==
    /\ ConflictReturned
    /\ Len(log[4].resp.Subnets) = 1
    /\ cfg.InstanceCIDR.bits < log[4].resp.Subnets[1].CidrBlock.bits
    /\ cfg.InstanceCIDR.addr \notin RangeOf(log[4].resp.Subnets[1].CidrBlock)

\* C19: for every pair of CIDR strings, host bits set or not, the scan of a
\* one-subnet list reports a conflict exactly when the two address ranges
\* share an address.
C19_ConflictIffRangesMeet ==
    (ScanReturned /\ Len(log[4].resp.Subnets) = 1) =>
        ( ConflictReturned <=> Overlap(cfg.InstanceCIDR, log[4].resp.Subnets[1].CidrBlock) )

\* Both CIDRs written with host bits set, neither written address inside the
\* other's range of base address, and a conflict reported.
C19_Witness ==
    /\ ConflictReturned
    /\ Len(log[4].resp.Subnets) = 1
    /\ LET a == cfg.InstanceCIDR
           b == log[4].resp.Subnets[1].CidrBlock
       IN  /\ a.addr /= Mask(a.addr, a.bits)
           /\ b.addr /= Mask(b.addr, b.bits)
           /\ a.addr /= b.addr
           /\ a.bits /= b.bits

\* ---------------------------------------------------------- properties of Info
\* The summaries of every page answered so far, in order.
RECURSIVE PagesUpTo(_)
PagesUpTo(i) ==
    IF i = 0 THEN <<>>
    ELSE PagesUpTo(i - 1) \o log[i].resp.StackResourceSummaries

\* Info has listed every page and returned.
InfoListed ==
    /\ op = "Info"
    /\ pc = "done"
    /\ log[Len(log)].resp.err.nil

\* The controller-address resources among the listed ones, in list order.
Controllers == SelectSeq(PagesUpTo(Len(log)), LAMBDA r : r.LogicalResourceId = "EIPController")

IncompleteStackError == Errorf(<<"unable to get public IP of controller instance">>)

\* C14: after a successful listing, a controller-address resource without a
\* physical id makes Info return the "unable to get public IP" error and no
\* ClusterInfo; otherwise, when such a resource is listed, Info returns a
\* ClusterInfo whose controller address is the physical id of a listed
\* controller-address resource (of the one listed, when there is one).
C14_ControllerAddressOrIncomplete ==
    InfoListed =>
        /\ (\E k \in 1..Len(Controllers) : ~Controllers[k].PhysicalResourceId.set)
             => result = Returned(NilInfo, IncompleteStackError)
        /\ ( /\ Len(Controllers) >= 1
             /\ \A k \in 1..Len(Controllers) : Controllers[k].PhysicalResourceId.set )
             => /\ result.err.nil
                /\ ~result.val.isNil
                /\ \E k \in 1..Len(Controllers) :
                     result.val.ControllerIP = Controllers[k].PhysicalResourceId.val
        /\ ( /\ Len(Controllers) = 1
             /\ Controllers[1].PhysicalResourceId.set )
             => result.val.ControllerIP = Controllers[1].PhysicalResourceId.val

\* One controller-address resource, with no physical id, among other resources.
C14_Witness ==
    /\ InfoListed
    /\ Len(PagesUpTo(Len(log))) = 2
    /\ Len(Controllers) = 1
    /\ ~Controllers[1].PhysicalResourceId.set
    /\ result.val.isNil
    /\ result.err = IncompleteStackError

\* C15: every call of Info is a ListStackResources call for the cluster's
\* stack; the first carries no token and each later one the token of the
\* answer before it; Info goes on while answers carry a token and returns at
\* the first that carries none; the list it scans is every page in order, so
\* a controller address on any page is returned; a failed call is the last
\* one and its error is returned.
C15_PaginatesToTheEnd ==
    op = "Info" =>
        /\ \A i \in 1..Len(log) :
             /\ log[i].call = "ListStackResources"
             /\ log[i].req.StackName = cfg.ClusterName
             /\ log[i].req.NextToken = (IF i = 1 THEN "" ELSE log[i - 1].resp.NextToken)
             /\ i < Len(log) => (log[i].resp.err.nil /\ log[i].resp.NextToken /= "")
        /\ LET last == log[Len(log)].resp IN
           /\ ~last.err.nil => (pc = "done" /\ result = Returned(NilInfo, last.err))
           /\ (last.err.nil /\ last.NextToken /= "") => pc = "list"
           /\ (last.err.nil /\ last.NextToken = "")
                => /\ pc = "done"
                   /\ resources = PagesUpTo(Len(log))
                   /\ ( /\ Len(Controllers) >= 1
                        /\ \A k \in 1..Len(Controllers) : Controllers[k].PhysicalResourceId.set )
                        => /\ result.err.nil
                           /\ result.val.ControllerIP
                                = Controllers[Len(Controllers)].PhysicalResourceId.val

\* The controller address is on the third page only, and is returned.
C15_Witness ==
    /\ InfoListed
    /\ Len(log) = 3
    /\ log[1].resp.NextToken /= log[2].resp.NextToken
    /\ log[1].resp.StackResourceSummaries = <<>>
    /\ Len(log[2].resp.StackResourceSummaries) = 1
    /\ log[2].resp.StackResourceSummaries[1].LogicalResourceId /= "EIPController"
    /\ Len(Controllers) = 1
    /\ result.err.nil
    /\ result.val.ControllerIP = "52.0.0.2"

\* C16 as stated: the ClusterInfo of a successful Info call carries the
\* configured cluster name in its Name field.
C16_InfoCarriesClusterName ==
    (InfoListed /\ result.err.nil) => result.val.Name = cfg.ClusterName

\* C20: after a successful listing, with no controller-address resource Info
\* succeeds with an empty controller address; the result depends on the
\* controller-address resources alone; if one of them has no physical id
\* Info fails, even when another has one; otherwise the last one in list
\* order supplies the address.
C20_LastControllerWinsOthersIgnored ==
    InfoListed =>
        /\ result = ScanResources(Controllers, 1, ZeroInfo)
        /\ Len(Controllers) = 0
             => (result.err.nil /\ ~result.val.isNil /\ result.val.ControllerIP = "")
        /\ (\E k \in 1..Len(Controllers) : ~Controllers[k].PhysicalResourceId.set)
             => (result.val.isNil /\ result.err = IncompleteStackError)
        /\ ( /\ Len(Controllers) >= 1
             /\ \A k \in 1..Len(Controllers) : Controllers[k].PhysicalResourceId.set )
             => /\ result.err.nil
                /\ ~result.val.isNil
                /\ result.val.ControllerIP
                     = Controllers[Len(Controllers)].PhysicalResourceId.val

\* Two controller-address resources with different physical ids and another
\* resource between them: the later one's id is returned.
C20_Witness ==
    /\ InfoListed
    /\ Len(PagesUpTo(Len(log))) = 3
    /\ Len(Controllers) = 2
    /\ Controllers[1].PhysicalResourceId = StringPtr("52.0.0.2")
    /\ Controllers[2].PhysicalResourceId = StringPtr("52.0.0.1")
    /\ result.err.nil
    /\ result.val.ControllerIP = "52.0.0.1"

\* --------------------------------------------- properties of repeated calls
\* C17: ValidateStack makes only validate and describe calls (no create,
\* update or delete request), and a second call that gets the answers the
\* first call got returns what the first call returned, after the same calls.
C17_ValidateReadOnlyAndRepeatable ==
    op = "Validate" =>
        /\ \A i \in 1..Len(log) :
             log[i].call \in {"ValidateTemplate", "DescribeStacks", "DescribeVpcs",
                              "DescribeSubnets"}
        /\ (prev.called /\ pc = "done") => (result = prev.result /\ log = prev.log)

\* A second call has returned the report, after the VPC and subnet checks.
C17_Witness ==
    /\ op = "Validate"
    /\ pc = "done"
    /\ prev.called
    /\ prev.result.err.nil
    /\ Len(prev.log) = 4
    /\ Len(log) = 4
    /\ Len(log[4].resp.Subnets) = 2
    /\ result.err.nil
    /\ result.val = "{ Description: kubernetes cluster }"

\* ------------------------------------------- properties of the polling loops
\* In an accepted Create or Update, the loop is still polling exactly when
\* every describe response so far carried the operation's in-progress status,
\* and it has returned exactly when the last response, and no earlier one,
\* was something else.
PollsWhileInProgress ==
    (op \in {"Create", "Update"} /\ log[1].resp.err.nil) =>
        LET d == CallsOf(log, "DescribeStacks")
            inProgress == IF op = "Create" THEN CreateInProgress ELSE UpdateInProgress
            Waits(e) == HasStatus(e) /\ StatusOf(e) = inProgress
        IN  /\ pc \in {"poll", "done"}
            /\ pc = "poll" <=> \A i \in 1..Len(d) : Waits(d[i])
            /\ pc = "done" => /\ Len(d) >= 1
                              /\ \A i \in 1..(Len(d) - 1) : Waits(d[i])
                              /\ ~Waits(d[Len(d)])
                              /\ log[Len(log)] = d[Len(d)]

\* C18: the Create and Update loops poll on while every response is the
\* in-progress status, return at the first response that is not (a terminal
\* or unknown status, no stack, or an error), and, the control plane
\* answering in time, every accepted operation eventually returns.
C18_PollsUntilAnsweredThenReturns ==
    /\ []PollsWhileInProgress
    /\ (pc = "poll") ~> (pc = "done")

\* An Update has returned success after in-progress answers up to the last
\* one allowed.
C18_Witness ==
    /\ op = "Update"
    /\ pc = "done"
    /\ Len(CallsOf(log, "DescribeStacks")) = MaxPolls
    /\ Len(CallsOf(log, "Sleep")) = MaxPolls - 1
    /\ result.err.nil

====
